---- MODULE Spec2Model ----
(***************************************************************************)
(* Model of task/03-date-tasks.js: five stateless date helpers.            *)
(*                                                                         *)
(* Representation.                                                         *)
(*   - A JavaScript number is a record [nan, v]: either NaN or the integer *)
(*     v.  Every number the helpers compute on valid dates is an integer   *)
(*     below 2^53, so double arithmetic on them is exact.                  *)
(*   - A Date is its time value split as ECMAScript splits it, into        *)
(*     Day(t) and TimeWithinDay(t): [valid, day, ms] with                  *)
(*     t = day * msPerDay + ms.  An Invalid Date has valid = FALSE (its    *)
(*     time value is NaN).                                                 *)
(*   - A string is a sequence of one-character strings.                    *)
(*   - Angles are counted in units of Math.PI / 360 (half degrees), in     *)
(*     which every angle the clock function computes is an integer.        *)
(***************************************************************************)
EXTENDS Integers, Sequences, FiniteSets, TLC

VARIABLES tza, pc, fn, args, result

vars == <<tza, pc, fn, args, result>>

(***************************************************************************)
(* Bounds of the explored inputs.                                          *)
(***************************************************************************)
MaxSpanHours == 30
FirstYear == 1890
LastYear == 2016

(***************************************************************************)
(* JavaScript numbers                                                      *)
(***************************************************************************)
Num(n) == [nan |-> FALSE, v |-> n]

NaN == [nan |-> TRUE, v |-> 0]

\* a - b
NSub(a, b) == IF a.nan \/ b.nan THEN NaN ELSE Num(a.v - b.v)

\* a + b on numbers
NAdd(a, b) == IF a.nan \/ b.nan THEN NaN ELSE Num(a.v + b.v)

\* a * b
NMul(a, b) == IF a.nan \/ b.nan THEN NaN ELSE Num(a.v * b.v)

\* Math.abs(a)
MathAbs(a) == IF a.nan THEN NaN ELSE Num(IF a.v < 0 THEN -a.v ELSE a.v)

\* Math.floor(a / b) for a positive integer divisor b
MathFloorDiv(a, b) == IF a.nan \/ b.nan THEN NaN ELSE Num(a.v \div b.v)

\* a / b where b divides a exactly (the only divisions the clock code makes)
NDivExact(a, b) == IF a.nan \/ b.nan THEN NaN ELSE Num(a.v \div b.v)

\* a % b of JavaScript: the remainder takes the sign of the dividend
JsRem(a, b) ==
  IF a.nan \/ b.nan THEN NaN
  ELSE IF a.v >= 0 THEN Num(a.v % b.v) ELSE Num(-((-a.v) % b.v))

\* a < b, a > b: false as soon as one side is NaN
NLt(a, b) == ~a.nan /\ ~b.nan /\ a.v < b.v

NGt(a, b) == ~a.nan /\ ~b.nan /\ a.v > b.v

\* a == b, a === b on numbers: NaN equals nothing
JsEq(a, b) == ~a.nan /\ ~b.nan /\ a.v = b.v

\* a !== b on numbers
JsStrictNe(a, b) == ~JsEq(a, b)

(***************************************************************************)
(* JavaScript strings                                                      *)
(***************************************************************************)
Digits == <<"0", "1", "2", "3", "4", "5", "6", "7", "8", "9">>

RECURSIVE NatToString(_)
NatToString(n) ==
  IF n < 10 THEN <<Digits[n + 1]>>
  ELSE NatToString(n \div 10) \o <<Digits[(n % 10) + 1]>>

\* ToString of a number
NumberToString(a) ==
  IF a.nan THEN <<"N", "a", "N">>
  ELSE IF a.v < 0 THEN <<"-">> \o NatToString(-a.v)
  ELSE NatToString(a.v)

\* ToString of a boolean
BooleanToString(b) == IF b THEN <<"t", "r", "u", "e">> ELSE <<"f", "a", "l", "s", "e">>

\* ToBoolean of a string: only the empty string is falsy
StringToBoolean(s) == Len(s) # 0

(***************************************************************************)
(* The Date object                                                         *)
(***************************************************************************)
msPerMinute == 60 * 1000

msPerHour == 60 * msPerMinute

msPerDay == 24 * msPerHour

InvalidDate == [valid |-> FALSE, day |-> 0, ms |-> 0]

\* ECMAScript DaysInYear
DaysInYear(y) ==
  IF y % 4 # 0 THEN 365
  ELSE IF y % 100 # 0 THEN 366
  ELSE IF y % 400 # 0 THEN 365
  ELSE 366

\* ECMAScript DayFromYear: day number of January 1st of year y
DayFromYear(y) ==
  365 * (y - 1970) + ((y - 1969) \div 4) - ((y - 1901) \div 100) + ((y - 1601) \div 400)

\* ECMAScript YearFromTime, on day numbers
YearFromDay(d) ==
  LET y0 == 1970 + ((d * 400) \div 146097)
  IN  CHOOSE y \in (y0 - 1)..(y0 + 1) : DayFromYear(y) <= d /\ d < DayFromYear(y + 1)

\* days before month m (0-based) within a year of n days
DaysBeforeMonth(m, n) ==
  LET leap == n - 365
      cum == <<0, 31, 59 + leap, 90 + leap, 120 + leap, 151 + leap, 181 + leap,
               212 + leap, 243 + leap, 273 + leap, 304 + leap, 334 + leap>>
  IN  cum[m + 1]

\* Shift a valid date by n milliseconds
AddMs(d, n) ==
  LET t == d.ms + n
  IN  [valid |-> TRUE, day |-> d.day + (t \div msPerDay), ms |-> t % msPerDay]

\* The date whose UTC fields are the given ones (month 0-based)
UTCDate(y, mo, dd, h, mi, s, ms) ==
  [valid |-> TRUE,
   day |-> DayFromYear(y) + DaysBeforeMonth(mo, DaysInYear(y)) + dd - 1,
   ms |-> h * msPerHour + mi * msPerMinute + s * 1000 + ms]

\* The date whose local fields are the given ones; tza is the local offset
\* in minutes east of UTC
LocalDate(y, mo, dd, h, mi, s, ms) ==
  AddMs(UTCDate(y, mo, dd, h, mi, s, ms), -(tza * msPerMinute))

\* Date.prototype.getTime
getTime(d) == IF d.valid THEN Num(d.day * msPerDay + d.ms) ELSE NaN

\* Date.prototype.getFullYear: the year of the local time
getFullYear(d) ==
  IF d.valid THEN Num(YearFromDay(AddMs(d, tza * msPerMinute).day)) ELSE NaN

\* Date.prototype.getUTCHours
getUTCHours(d) == IF d.valid THEN Num(d.ms \div msPerHour) ELSE NaN

\* Date.prototype.getUTCMinutes
getUTCMinutes(d) == IF d.valid THEN Num((d.ms \div msPerMinute) % 60) ELSE NaN

\* new Date(value) for a string value: Date.parse on the strings explored here.
\* A string without an offset is read in local time.
NewDate(value) ==
  CASE value = "December 17, 1995 03:24:00" -> LocalDate(1995, 11, 17, 3, 24, 0, 0)
    [] value = "Tue, 26 Jan 2016 13:48:02 GMT" -> UTCDate(2016, 0, 26, 13, 48, 2, 0)
    [] value = "Sun, 17 May 1998 03:00:00 GMT+01" -> UTCDate(1998, 4, 17, 2, 0, 0, 0)
    [] value = "2016-01-19T16:07:37+00:00" -> UTCDate(2016, 0, 19, 16, 7, 37, 0)
    [] value = "2016-01-19T08:07:37Z" -> UTCDate(2016, 0, 19, 8, 7, 37, 0)
    [] OTHER -> InvalidDate

(***************************************************************************)
(* parseDataFromRfc2822, parseDataFromIso8601                              *)
(***************************************************************************)
parseDataFromRfc2822(value) == NewDate(value)

parseDataFromIso8601(value) == NewDate(value)

(***************************************************************************)
(* isLeapYear                                                              *)
(***************************************************************************)
\* variant: the century exceptions are forgotten
isLeapYear_noCentury(date) ==
  LET year == getFullYear(date)
  IN  JsEq(JsRem(year, Num(4)), Num(0))

isLeapYear(date) ==
  LET year == getFullYear(date)
  IN  JsEq(JsRem(year, Num(4)), Num(0))
      /\ (JsStrictNe(JsRem(year, Num(100)), Num(0)) \/ JsEq(JsRem(year, Num(400)), Num(0)))

(***************************************************************************)
(* timeSpanToString                                                        *)
(***************************************************************************)
hourInMS == 60 * 60 * 1000

minuteInMS == 60 * 1000

secondInMS == 1000

\* line 85: the span in milliseconds
\* variant: the difference is not made absolute
timeSpanDiff_noAbs(startDate, endDate) ==
  NSub(getTime(startDate), getTime(endDate))

\* variant: a NaN difference is replaced by 0 (Math.abs(...) || 0)
timeSpanDiff_orZero(startDate, endDate) ==
  LET d == MathAbs(NSub(getTime(startDate), getTime(endDate)))
  IN  IF d.nan THEN Num(0) ELSE d

timeSpanDiff(startDate, endDate) ==
  MathAbs(NSub(getTime(startDate), getTime(endDate)))

\* variant: the milliseconds are appended as the statement commented out at
\* line 103 does
timeSpanToString_line103(startDate, endDate) ==
  LET diff0 == timeSpanDiff(startDate, endDate)
      hours == MathFloorDiv(diff0, Num(hourInMS))
      diff1 == NSub(diff0, NMul(hours, Num(hourInMS)))
      minutes == MathFloorDiv(diff1, Num(minuteInMS))
      diff2 == NSub(diff1, NMul(minutes, Num(minuteInMS)))
      seconds == MathFloorDiv(diff2, Num(secondInMS))
      mSeconds == NSub(diff2, NMul(seconds, Num(secondInMS)))
      \* "" + (hours<10) ? "0"+hours : hours  parses as
      \* ("" + (hours<10)) ? "0"+hours : hours
      r1 == IF StringToBoolean(<<>> \o BooleanToString(NLt(hours, Num(10))))
            THEN <<"0">> \o NumberToString(hours)
            ELSE NumberToString(hours)
      r2 == r1 \o <<":">>
      r3 == r2 \o (IF NLt(minutes, Num(10)) THEN <<"0">> \o NumberToString(minutes)
                   ELSE NumberToString(minutes))
      r4 == r3 \o <<":">>
      r5 == r4 \o (IF NLt(seconds, Num(10)) THEN <<"0">> \o NumberToString(seconds)
                   ELSE NumberToString(seconds))
      \* result += "." + (mSeconds<100) ? "0"+mSeconds : mSeconds
      r6 == r5 \o (IF StringToBoolean(<<".">> \o BooleanToString(NLt(mSeconds, Num(100))))
                   THEN <<"0">> \o NumberToString(mSeconds)
                   ELSE NumberToString(mSeconds))
  IN  r6

\* variant: the padding of one-digit milliseconds (line 106) is missing
timeSpanToString_noPad10(startDate, endDate) ==
  LET diff0 == timeSpanDiff(startDate, endDate)
      hours == MathFloorDiv(diff0, Num(hourInMS))
      diff1 == NSub(diff0, NMul(hours, Num(hourInMS)))
      minutes == MathFloorDiv(diff1, Num(minuteInMS))
      diff2 == NSub(diff1, NMul(minutes, Num(minuteInMS)))
      seconds == MathFloorDiv(diff2, Num(secondInMS))
      mSeconds == NSub(diff2, NMul(seconds, Num(secondInMS)))
      \* "" + (hours<10) ? "0"+hours : hours  parses as
      \* ("" + (hours<10)) ? "0"+hours : hours
      r1 == IF StringToBoolean(<<>> \o BooleanToString(NLt(hours, Num(10))))
            THEN <<"0">> \o NumberToString(hours)
            ELSE NumberToString(hours)
      r2 == r1 \o <<":">>
      r3 == r2 \o (IF NLt(minutes, Num(10)) THEN <<"0">> \o NumberToString(minutes)
                   ELSE NumberToString(minutes))
      r4 == r3 \o <<":">>
      r5 == r4 \o (IF NLt(seconds, Num(10)) THEN <<"0">> \o NumberToString(seconds)
                   ELSE NumberToString(seconds))
      r6 == r5 \o <<".">>
      r7 == IF NLt(mSeconds, Num(100)) THEN r6 \o <<"0">> ELSE r6
  IN  r7 \o NumberToString(mSeconds)

timeSpanToString(startDate, endDate) ==
  LET diff0 == timeSpanDiff(startDate, endDate)
      hours == MathFloorDiv(diff0, Num(hourInMS))
      diff1 == NSub(diff0, NMul(hours, Num(hourInMS)))
      minutes == MathFloorDiv(diff1, Num(minuteInMS))
      diff2 == NSub(diff1, NMul(minutes, Num(minuteInMS)))
      seconds == MathFloorDiv(diff2, Num(secondInMS))
      mSeconds == NSub(diff2, NMul(seconds, Num(secondInMS)))
      \* "" + (hours<10) ? "0"+hours : hours  parses as
      \* ("" + (hours<10)) ? "0"+hours : hours
      r1 == IF StringToBoolean(<<>> \o BooleanToString(NLt(hours, Num(10))))
            THEN <<"0">> \o NumberToString(hours)
            ELSE NumberToString(hours)
      r2 == r1 \o <<":">>
      r3 == r2 \o (IF NLt(minutes, Num(10)) THEN <<"0">> \o NumberToString(minutes)
                   ELSE NumberToString(minutes))
      r4 == r3 \o <<":">>
      r5 == r4 \o (IF NLt(seconds, Num(10)) THEN <<"0">> \o NumberToString(seconds)
                   ELSE NumberToString(seconds))
      r6 == r5 \o <<".">>
      r7 == IF NLt(mSeconds, Num(100)) THEN r6 \o <<"0">> ELSE r6
      r8 == IF NLt(mSeconds, Num(10)) THEN r7 \o <<"0">> ELSE r7
  IN  r8 \o NumberToString(mSeconds)

(***************************************************************************)
(* angleBetweenClockHands, in units of Math.PI / 360                       *)
(***************************************************************************)
MathPI == 360

radInHour == Num((2 * MathPI) \div 12)

radInMinute == Num((2 * MathPI) \div 60)

\* variant: hours above 12 are not brought back to the dial
angleBetweenClockHands_noReduce(date) ==
  LET hours == getUTCHours(date)
      minutes == getUTCMinutes(date)
      hoursAngle == NAdd(NMul(hours, radInHour),
                         NDivExact(NMul(radInHour, minutes), Num(60)))
      minutesAngle == NMul(minutes, radInMinute)
      result0 == MathAbs(NSub(hoursAngle, minutesAngle))
  IN  IF NGt(result0, Num(MathPI)) THEN NSub(result0, Num(MathPI)) ELSE result0

\* variant: an angle above Math.PI is returned as it is
angleBetweenClockHands_noFold(date) ==
  LET hours0 == getUTCHours(date)
      minutes == getUTCMinutes(date)
      hours == IF NGt(hours0, Num(12)) THEN NSub(hours0, Num(12)) ELSE hours0
      hoursAngle == NAdd(NMul(hours, radInHour),
                         NDivExact(NMul(radInHour, minutes), Num(60)))
      minutesAngle == NMul(minutes, radInMinute)
  IN  MathAbs(NSub(hoursAngle, minutesAngle))

angleBetweenClockHands(date) ==
  LET hours0 == getUTCHours(date)
      minutes == getUTCMinutes(date)
      hours == IF NGt(hours0, Num(12)) THEN NSub(hours0, Num(12)) ELSE hours0
      hoursAngle == NAdd(NMul(hours, radInHour),
                         NDivExact(NMul(radInHour, minutes), Num(60)))
      minutesAngle == NMul(minutes, radInMinute)
      result0 == MathAbs(NSub(hoursAngle, minutesAngle))
  IN  IF NGt(result0, Num(MathPI)) THEN NSub(result0, Num(MathPI)) ELSE result0

(***************************************************************************)
(* Inputs                                                                  *)
(***************************************************************************)
\* local offsets in minutes east of UTC
TimeZones == {-300, 0, 180}

ParseInputs ==
  {"December 17, 1995 03:24:00", "Tue, 26 Jan 2016 13:48:02 GMT",
   "Sun, 17 May 1998 03:00:00 GMT+01", "2016-01-19T16:07:37+00:00",
   "2016-01-19T08:07:37Z",
   "", "not a date", "2016-13-45T99:99:99Z", "Tue, 32 Foo 2016 25:61:61 GMT"}

MalformedInputs == {"", "not a date", "2016-13-45T99:99:99Z", "Tue, 32 Foo 2016 25:61:61 GMT"}

Years == (FirstYear..LastYear) \cup {-400, -100, -4, -1, 0, 4, 100, 400, 1600}

LeapInputs ==
  {LocalDate(y, mo, dd, tod[1], tod[2], tod[3], tod[4]) :
     y \in Years, mo \in {0, 1, 11}, dd \in {1, 28},
     tod \in {<<0, 0, 0, 0>>, <<23, 59, 59, 999>>}}
  \cup {InvalidDate}

SpanStarts == {UTCDate(1970, 0, 1, 10, 0, 0, 0), UTCDate(1970, 0, 2, 23, 59, 59, 999)}

SpanLengths ==
  {h * hourInMS + m * minuteInMS + s * secondInMS + ms :
     h \in 0..MaxSpanHours, m \in {0, 9, 10, 20, 30, 59},
     s \in {0, 9, 10, 20, 59}, ms \in {0, 9, 10, 99, 100, 250, 453, 999}}

SpanInputs ==
  {<<a, AddMs(a, n)>> : a \in SpanStarts, n \in SpanLengths}
  \cup {<<AddMs(a, n), a>> : a \in SpanStarts, n \in SpanLengths}
  \cup {<<InvalidDate, a>> : a \in SpanStarts}
  \cup {<<a, InvalidDate>> : a \in SpanStarts}
  \cup {<<InvalidDate, InvalidDate>>}

ClockInputs ==
  {UTCDate(2016, mo, 5, h, mi, s, 0) : mo \in {2, 3}, h \in 0..23, mi \in 0..59, s \in {0, 30}}
  \cup {InvalidDate}

(***************************************************************************)
(* The calls: a call is pending on its arguments, then returns.            *)
(***************************************************************************)
Init ==
  /\ tza \in TimeZones
  /\ pc = "call"
  /\ result = <<>>
  /\ \/ fn = "parseDataFromRfc2822" /\ args \in {<<value>> : value \in ParseInputs}
     \/ fn = "parseDataFromIso8601" /\ args \in {<<value>> : value \in ParseInputs}
     \/ fn = "isLeapYear" /\ args \in {<<date>> : date \in LeapInputs}
     \/ fn = "timeSpanToString" /\ args \in SpanInputs
     \/ fn = "angleBetweenClockHands" /\ args \in {<<date>> : date \in ClockInputs}

CallParseDataFromRfc2822 ==
  /\ pc = "call"
  /\ fn = "parseDataFromRfc2822"
  /\ result' = parseDataFromRfc2822(args[1])
  /\ pc' = "done"
  /\ UNCHANGED <<tza, fn, args>>

CallParseDataFromIso8601 ==
  /\ pc = "call"
  /\ fn = "parseDataFromIso8601"
  /\ result' = parseDataFromIso8601(args[1])
  /\ pc' = "done"
  /\ UNCHANGED <<tza, fn, args>>

CallIsLeapYear ==
  /\ pc = "call"
  /\ fn = "isLeapYear"
  /\ result' = isLeapYear(args[1])
  /\ pc' = "done"
  /\ UNCHANGED <<tza, fn, args>>

CallTimeSpanToString ==
  /\ pc = "call"
  /\ fn = "timeSpanToString"
  /\ result' = timeSpanToString(args[1], args[2])
  /\ pc' = "done"
  /\ UNCHANGED <<tza, fn, args>>

CallAngleBetweenClockHands ==
  /\ pc = "call"
  /\ fn = "angleBetweenClockHands"
  /\ result' = angleBetweenClockHands(args[1])
  /\ pc' = "done"
  /\ UNCHANGED <<tza, fn, args>>

Next ==
  \/ CallParseDataFromRfc2822
  \/ CallParseDataFromIso8601
  \/ CallIsLeapYear
  \/ CallTimeSpanToString
  \/ CallAngleBetweenClockHands

Spec == Init /\ [][Next]_vars

(***************************************************************************)
(* Vocabulary of the properties                                            *)
(***************************************************************************)
Returned(f) == pc = "done" /\ fn = f

\* position of the first c in s, 0 when there is none
FirstIndex(s, c) ==
  IF \E i \in 1..Len(s) : s[i] = c
  THEN CHOOSE i \in 1..Len(s) : s[i] = c /\ \A j \in 1..(i - 1) : s[j] # c
  ELSE 0

BeforeFirst(s, c) == SubSeq(s, 1, FirstIndex(s, c) - 1)

AfterFirst(s, c) == SubSeq(s, FirstIndex(s, c) + 1, Len(s))

\* the four fields of HH:mm:ss.sss
FieldHH(s) == BeforeFirst(s, ":")

FieldMM(s) == BeforeFirst(AfterFirst(s, ":"), ":")

FieldSS(s) == BeforeFirst(AfterFirst(AfterFirst(s, ":"), ":"), ".")

FieldSSS(s) == AfterFirst(s, ".")

IsDigits(s) == Len(s) > 0 /\ \A i \in 1..Len(s) : \E d \in 1..10 : Digits[d] = s[i]

DigitValue(c) == (CHOOSE d \in 1..10 : Digits[d] = c) - 1

RECURSIVE DecimalValue(_)
DecimalValue(s) ==
  IF Len(s) = 0 THEN 0
  ELSE 10 * DecimalValue(SubSeq(s, 1, Len(s) - 1)) + DigitValue(s[Len(s)])

\* |end - start| in milliseconds, from the two time values
AbsDiff(a, b) ==
  LET d == (a.day - b.day) * msPerDay + (a.ms - b.ms)
  IN  IF d < 0 THEN -d ELSE d

BothValid == args[1].valid /\ args[2].valid

\* s contains the text NaN
NaNMarked(s) == \E i \in 1..(Len(s) - 2) : SubSeq(s, i, i + 2) = <<"N", "a", "N">>

\* hour and minute of the day of a valid date, and the clock angle the
\* specification prescribes for them (units of Math.PI / 360)
HourOf(d) == d.ms \div msPerHour

MinuteOf(d) == (d.ms \div msPerMinute) % 60

RawAngle(h, m) ==
  LET hourHand == (h % 12) * 60 + m
      minuteHand == m * 12
  IN  IF hourHand < minuteHand THEN minuteHand - hourHand ELSE hourHand - minuteHand

(***************************************************************************)
(* C1: the hours field of timeSpanToString's result is the total whole     *)
(* hours of the span, padded with a zero below 10 and printed as its bare  *)
(* decimal digits from 10 on.  (Stated as claimed; the code prefixes "0"   *)
(* to every hour count.)                                                   *)
(***************************************************************************)
C1_HoursFieldAsClaimed ==
  (Returned("timeSpanToString") /\ BothValid) =>
    LET H == AbsDiff(args[1], args[2]) \div hourInMS
    IN  FieldHH(result) = (IF H < 10 THEN <<"0">> \o NatToString(H) ELSE NatToString(H))

(***************************************************************************)
(* C2: when the raw angle exceeds pi, angleBetweenClockHands returns 2*pi  *)
(* minus the raw angle, otherwise the raw angle; 5*pi/8 at UTC 00:45.      *)
(* (Stated as claimed; the code subtracts pi instead.)                     *)
(***************************************************************************)
C2_SmallerAngleAsClaimed ==
  (Returned("angleBetweenClockHands") /\ args[1].valid) =>
    LET raw == RawAngle(HourOf(args[1]), MinuteOf(args[1]))
    IN  result = Num(IF raw > MathPI THEN 2 * MathPI - raw ELSE raw)

(***************************************************************************)
(* C3: the result at UTC (h+12):m equals the result at UTC h:m, for h in   *)
(* 0..11.  (Stated as claimed; the code leaves hour 12 unreduced.)         *)
(***************************************************************************)
C3_HourMod12AsClaimed ==
  (Returned("angleBetweenClockHands") /\ args[1].valid /\ HourOf(args[1]) >= 12) =>
    result = angleBetweenClockHands(AddMs(args[1], -(12 * msPerHour)))

(***************************************************************************)
(* C4: for every valid UTC hour and minute the returned angle lies in      *)
(* [0, pi].                                                                *)
(***************************************************************************)
C4_AngleInRange ==
  (Returned("angleBetweenClockHands") /\ args[1].valid) =>
    ~result.nan /\ 0 <= result.v /\ result.v <= MathPI

C4_Witness ==
  /\ Returned("angleBetweenClockHands")
  /\ args[1].valid
  /\ HourOf(args[1]) = 12
  /\ MinuteOf(args[1]) = 0
  /\ result = Num(MathPI)

(***************************************************************************)
(* C5: isLeapYear is true exactly when the year Y of the date satisfies    *)
(* Y mod 4 = 0 and (Y mod 100 # 0 or Y mod 400 = 0); true for 2000 and     *)
(* 2012, false for 1900, 2001 and 2015, whatever the month, day and time.  *)
(***************************************************************************)
C5_LeapYearRule ==
  (Returned("isLeapYear") /\ args[1].valid) =>
    LET Y == YearFromDay(AddMs(args[1], tza * msPerMinute).day)
    IN  /\ result = (Y % 4 = 0 /\ (Y % 100 # 0 \/ Y % 400 = 0))
        /\ (Y \in {2000, 2012} => result = TRUE)
        /\ (Y \in {1900, 2001, 2015} => result = FALSE)

C5_Witness ==
  /\ Returned("isLeapYear")
  /\ args[1] = LocalDate(2000, 11, 28, 23, 59, 59, 999)
  /\ result = TRUE

(***************************************************************************)
(* C6: the mm, ss and sss fields are the truncating decomposition of the   *)
(* span, printed with exactly 2, 2 and 3 digits, and the four fields add   *)
(* up to the span.                                                         *)
(***************************************************************************)
C6_MinSecMsFields ==
  (Returned("timeSpanToString") /\ BothValid) =>
    LET diff == AbsDiff(args[1], args[2])
        hh == FieldHH(result)
        mm == FieldMM(result)
        ss == FieldSS(result)
        sss == FieldSSS(result)
    IN  /\ IsDigits(hh) /\ IsDigits(mm) /\ IsDigits(ss) /\ IsDigits(sss)
        /\ Len(mm) = 2 /\ Len(ss) = 2 /\ Len(sss) = 3
        /\ DecimalValue(mm) = (diff % 3600000) \div 60000
        /\ DecimalValue(ss) = (diff % 60000) \div 1000
        /\ DecimalValue(sss) = diff % 1000
        /\ DecimalValue(mm) \in 0..59 /\ DecimalValue(ss) \in 0..59
        /\ DecimalValue(hh) * 3600000 + DecimalValue(mm) * 60000
             + DecimalValue(ss) * 1000 + DecimalValue(sss) = diff
        /\ Len(result) = Len(hh) + 10

C6_Witness ==
  /\ Returned("timeSpanToString")
  /\ BothValid
  /\ AbsDiff(args[1], args[2]) = 30 * 3600000 + 59 * 60000 + 9 * 1000 + 99
  /\ FieldMM(result) = <<"5", "9">>
  /\ FieldSS(result) = <<"0", "9">>
  /\ FieldSSS(result) = <<"0", "9", "9">>

(***************************************************************************)
(* C7: timeSpanToString(a, b) and timeSpanToString(b, a) are the same      *)
(* string.                                                                 *)
(***************************************************************************)
C7_OrderIndependent ==
  Returned("timeSpanToString") => result = timeSpanToString(args[2], args[1])

C7_Witness ==
  /\ Returned("timeSpanToString")
  /\ BothValid
  /\ args[1] = AddMs(args[2], 5 * 3600000 + 20 * 60000 + 10 * 1000 + 453)
  /\ result = <<"0", "5", ":", "2", "0", ":", "1", "0", ".", "4", "5", "3">>

(***************************************************************************)
(* C8: angleBetweenClockHands returns 0 at UTC 00:00, pi/2 at 03:00, pi at *)
(* 18:00 and pi/2 at 21:00.                                                *)
(***************************************************************************)
C8_DocumentedAngles ==
  (Returned("angleBetweenClockHands") /\ args[1].valid /\ MinuteOf(args[1]) = 0) =>
    /\ (HourOf(args[1]) = 0 => result = Num(0))
    /\ (HourOf(args[1]) = 3 => result = Num(MathPI \div 2))
    /\ (HourOf(args[1]) = 18 => result = Num(MathPI))
    /\ (HourOf(args[1]) = 21 => result = Num(MathPI \div 2))

C8_Witness ==
  /\ Returned("angleBetweenClockHands")
  /\ args[1] = UTCDate(2016, 3, 5, 21, 0, 0, 0)
  /\ result = Num(MathPI \div 2)

(***************************************************************************)
(* C9: timeSpanToString returns the documented strings: equal instants     *)
(* give 00:00:00.000, one hour 01:00:00.000, 30 minutes 00:30:00.000, 20   *)
(* seconds 00:00:20.000, 250 ms 00:00:00.250 and 5 h 20 min 10 s 453 ms    *)
(* 05:20:10.453.                                                           *)
(***************************************************************************)
C9_DocumentedSpans ==
  (Returned("timeSpanToString") /\ BothValid) =>
    LET diff == AbsDiff(args[1], args[2])
    IN  /\ (diff = 0 =>
              result = <<"0", "0", ":", "0", "0", ":", "0", "0", ".", "0", "0", "0">>)
        /\ (diff = 3600000 =>
              result = <<"0", "1", ":", "0", "0", ":", "0", "0", ".", "0", "0", "0">>)
        /\ (diff = 30 * 60000 =>
              result = <<"0", "0", ":", "3", "0", ":", "0", "0", ".", "0", "0", "0">>)
        /\ (diff = 20 * 1000 =>
              result = <<"0", "0", ":", "0", "0", ":", "2", "0", ".", "0", "0", "0">>)
        /\ (diff = 250 =>
              result = <<"0", "0", ":", "0", "0", ":", "0", "0", ".", "2", "5", "0">>)
        /\ (diff = 5 * 3600000 + 20 * 60000 + 10 * 1000 + 453 =>
              result = <<"0", "5", ":", "2", "0", ":", "1", "0", ".", "4", "5", "3">>)

C9_Witness ==
  /\ Returned("timeSpanToString")
  /\ args[1] = UTCDate(1970, 0, 1, 10, 0, 0, 0)
  /\ args[2] = UTCDate(1970, 0, 1, 10, 0, 0, 250)
  /\ result = <<"0", "0", ":", "0", "0", ":", "0", "0", ".", "2", "5", "0">>

(***************************************************************************)
(* C10: an unparseable string makes both parsers return the Invalid Date,  *)
(* and on an Invalid Date isLeapYear returns false, timeSpanToString a     *)
(* string marked with NaN and angleBetweenClockHands NaN: every call       *)
(* returns a value.                                                        *)
(***************************************************************************)
C10_InvalidityPropagates ==
  /\ (Returned("parseDataFromRfc2822") /\ args[1] \in MalformedInputs) => result = InvalidDate
  /\ (Returned("parseDataFromIso8601") /\ args[1] \in MalformedInputs) => result = InvalidDate
  /\ (Returned("isLeapYear") /\ ~args[1].valid) => result = FALSE
  /\ (Returned("timeSpanToString") /\ ~BothValid) => NaNMarked(result)
  /\ (Returned("angleBetweenClockHands") /\ ~args[1].valid) => result = NaN

C10_Witness ==
  /\ Returned("timeSpanToString")
  /\ ~args[1].valid
  /\ args[2].valid
  /\ result = <<"0", "N", "a", "N", ":", "N", "a", "N", ":", "N", "a", "N", ".", "N", "a", "N">>

====
